---------------------------- MODULE Spec2Model ----------------------------
(***************************************************************************)
(* Scroll-linked 3D pose of the landing page (src/landing/src/App.tsx).    *)
(* The file holds two page components, LandingPage (lines 22-259) and App  *)
(* (lines 326-550); `variant` says which one a behaviour runs.             *)
(*                                                                         *)
(* Numbers are exact rationals [n, d] in lowest terms with d > 0; the      *)
(* rounding of IEEE doubles is not modelled.  The y rotation is counted in *)
(* units of pi (Math.PI / 4 is 1/4): lerp is linear, so the unit commutes  *)
(* with every operation applied to it.                                     *)
(***************************************************************************)
EXTENDS Integers, Sequences, FiniteSets, TLC

\* ------------------------------------------------------------------ bounds
\* Progress inputs of the pure-function specifications are k / ProgDen.
ProgDen == 4
\* Longest keyframe sequence handed to getPoseAt in SpecPose.
MaxFrames == 3
\* The page can be scrolled 0..MaxScroll layout units.
MaxScroll == 3
\* Height of the stage when it is taller than the viewport, and the viewport's.
TallStage == 4
Viewport == 2
\* Scene nodes are numbered 1..MaxNodes.
MaxNodes == 2
\* The count of window events since the last run of update stops at MaxBurst.
MaxBurst == 2

\* --------------------------------------------------------------- rationals
Abs(i) == IF i < 0 THEN -i ELSE i

RECURSIVE Gcd(_, _)
Gcd(a, b) == IF b = 0 THEN a ELSE Gcd(b, a % b)

\* The number n / d (d # 0) in lowest terms.
Rat(n, d) ==
    LET g == Gcd(Abs(n), Abs(d))
        sgn == IF d < 0 THEN -1 ELSE 1
    IN  [n |-> (sgn * n) \div g, d |-> Abs(d) \div g]

R(i) == [n |-> i, d |-> 1]

RAdd(a, b) == Rat(a.n * b.d + b.n * a.d, a.d * b.d)
RSub(a, b) == Rat(a.n * b.d - b.n * a.d, a.d * b.d)
RMul(a, b) == Rat(a.n * b.n, a.d * b.d)
RLt(a, b) == a.n * b.d < b.n * a.d
RMin(a, b) == IF RLt(b, a) THEN b ELSE a
RMax(a, b) == IF RLt(a, b) THEN b ELSE a
\* Math.floor
RFloor(a) == a.n \div a.d

\* ------------------------------------------------------------------- poses
Variants == {"LandingPage", "App"}

\* clamp01 as each component writes it.
clamp01LandingPage(v) == RMin(RMax(v, R(0)), R(1))
clamp01App(v) == IF RLt(v, R(0)) THEN R(0) ELSE IF RLt(R(1), v) THEN R(1) ELSE v
\* Mutant: the value is returned unclamped.
clamp01Identity(var, v) == v

clamp01(var, v) == IF var = "LandingPage" THEN clamp01LandingPage(v) ELSE clamp01App(v)

\* Mutant: the interpolation starts from b (the arguments are swapped).
lerpFromB(a, b, t) == RAdd(b, RMul(RSub(a, b), t))

lerp(a, b, t) == RAdd(a, RMul(RSub(b, a), t))

\* A label is a sequence of strings: <<l>> for an authored keyframe and
\* <<"mix", la, lb>> for the template string `mix(${a.label},${b.label})`.
Pose(l, x, y, z, px, py, pz, s) ==
    [label |-> l, x |-> x, y |-> y, z |-> z, px |-> px, py |-> py, pz |-> pz, s |-> s]

POSES ==
    << Pose(<<"front">>,             R(0),        R(0),      R(0),        R(0),   R(0), R(0), R(1)),
       Pose(<<"quarter-left">>,      Rat(6, 100), Rat(1, 4), Rat(-4, 100), R(-30), R(0), R(0), Rat(108, 100)),
       Pose(<<"side-left">>,         R(0),        Rat(1, 2), R(0),        R(-60), R(0), R(0), Rat(118, 100)),
       Pose(<<"threeQuarter-left">>, Rat(-6, 100), Rat(3, 4), Rat(4, 100), R(-40), R(0), R(0), Rat(112, 100)),
       Pose(<<"back">>,              R(0),        R(1),      R(0),        R(-10), R(0), R(0), Rat(105, 100)) >>

EmptyPose == Pose(<<"empty">>, R(0), R(0), R(0), R(0), R(0), R(0), R(1))

\* Mutant: the upper neighbour is not clamped at the last frame (POSES[idx + 1]).
UpperIndexNoClamp(idx, frames) == idx + 2

\* Index (1-based) of the upper neighbour: POSES[Math.min(idx + 1, frames - 1)].
UpperIndex(idx, frames) == (IF idx + 1 < frames - 1 THEN idx + 1 ELSE frames - 1) + 1

\* The frame at 1-based index i; reading outside the array yields undefined.
Undefined == [label |-> <<"undefined">>]
FrameAt(seq, i) == IF i \in 1..Len(seq) THEN seq[i] ELSE Undefined

MixPose(a, b, t) ==
    [label |-> <<"mix">> \o a.label \o b.label,
     x  |-> lerp(a.x, b.x, t),   y  |-> lerp(a.y, b.y, t),   z  |-> lerp(a.z, b.z, t),
     px |-> lerp(a.px, b.px, t), py |-> lerp(a.py, b.py, t), pz |-> lerp(a.pz, b.pz, t),
     s  |-> lerp(a.s, b.s, t)]

\* The result of reading a field of undefined: a TypeError.
TypeError == [label |-> <<"TypeError">>]

\* Mutant: no early return for a single keyframe; it is mixed with itself.
getPoseAtNoSingle(var, seq, progress) ==
    LET frames == Len(seq)
        pos == RMul(clamp01(var, progress), R(frames - 1))
        idx == RFloor(pos)
        t   == clamp01(var, RSub(pos, R(idx)))
        a   == FrameAt(seq, idx + 1)
        b   == FrameAt(seq, UpperIndex(idx, frames))
    IN  IF frames = 0 THEN EmptyPose
        ELSE IF a = Undefined \/ b = Undefined THEN TypeError
        ELSE MixPose(a, b, t)

getPoseAt(var, seq, progress) ==
    LET frames == Len(seq)
        pos == RMul(clamp01(var, progress), R(frames - 1))
        idx == RFloor(pos)
        t   == clamp01(var, RSub(pos, R(idx)))
        a   == FrameAt(seq, idx + 1)
        b   == FrameAt(seq, UpperIndex(idx, frames))
    IN  IF frames = 0 THEN EmptyPose
        ELSE IF frames = 1 THEN seq[1]
        ELSE IF a = Undefined \/ b = Undefined THEN TypeError
        ELSE MixPose(a, b, t)


\* ---------------------------------------------------------- stage progress
\* getStageProgress: el is stageRef.current (FALSE when the ref is null),
\* top and height are its bounding rectangle's, vh is window.innerHeight.
\* The JavaScript quotient n / d of two integers: 0 / 0 is NaN, written 0/0,
\* and n / 0 is an infinity, written 1/0 or -1/0. RLt is false on NaN, as every
\* JavaScript comparison is.
NaN == [n |-> 0, d |-> 0]
Quot(n, d) == IF n = 0 /\ d = 0 THEN NaN ELSE Rat(n, d)

\* Mutant: the scrollable distance without the lower bound of 1.
scrollableNoFloor(height, ih) ==
    LET vh == IF ih = 0 THEN 1 ELSE ih
    IN  height - vh

\* Mutant: the scrollable distance is the whole height of the stage.
scrollableWholeStage(height, ih) ==
    IF height > 1 THEN height ELSE 1

\* vh = window.innerHeight || 1; scrollable = Math.max(1, rect.height - vh).
scrollable(height, ih) ==
    LET vh == IF ih = 0 THEN 1 ELSE ih
    IN  IF height - vh > 1 THEN height - vh ELSE 1

getStageProgress(var, el, top, height, ih) ==
    IF ~el THEN R(0)
    ELSE clamp01(var, Quot(0 - top, scrollable(height, ih)))

\* -------------------------------------------------------------- scene nodes
\* A node's rotation, position and scale are each absent, a plain {x, y, z}
\* ("plain"), a vector with a set method ("set"), a vector whose set method
\* rejects values and raises ("throws"), or a plain {x, y, z} whose y rejects
\* assignment and raises while x and z accept it ("locked").
Keys == {"rotation", "position", "scale"}
FieldKinds == {"absent", "plain", "set", "throws", "locked"}
Vec3(x, y, z) == [x |-> x, y |-> y, z |-> z]
\* What the scene asset holds before the page writes anything.
AssetVec == Vec3(R(7), R(7), R(7))
NodeIds == 1..MaxNodes
NoNode == 0
\* The shapes of a node: every combination of absent, plain, set and throws,
\* and a plain node one of whose fields is locked.
Shapes ==
    [Keys -> FieldKinds \ {"locked"}]
    \cup {[k \in Keys |-> IF k = l THEN "locked" ELSE "plain"] : l \in Keys}
NewNode(shape) == [k \in Keys |-> [kind |-> shape[k], val |-> AssetVec]]

\* The effects of a handler on the scene: the nodes, the keys whose write raised
\* and was caught, and whether an exception left the handler.
World(ns, c, th) == [nodes |-> ns, caught |-> c, thrown |-> th]

\* The node's own operations on a vector field f: target.set(x, y, z), which
\* raises when the vector rejects the value (and would raise a TypeError on a
\* vector without set), and the assignment of the axes of vec one after the
\* other in the order `axes`, which stops at the first axis that raises.
HasSet(f) == f.kind \in {"set", "throws"}
CallSet(f, vec) ==
    IF f.kind = "set" THEN [ok |-> TRUE, f |-> [f EXCEPT !.val = vec]]
    ELSE [ok |-> FALSE, f |-> f]
RECURSIVE AssignAxes(_, _, _, _)
AssignAxes(f, vec, axes, i) ==
    IF i > Len(axes) THEN [ok |-> TRUE, f |-> f]
    ELSE IF f.kind = "locked" /\ axes[i] = "y" THEN [ok |-> FALSE, f |-> f]
    ELSE AssignAxes([f EXCEPT !.val[axes[i]] = vec[axes[i]]], vec, axes, i + 1)
\* target.x = x, target.y = y, target.z = z, and Object.assign(target, {x, y, z}).
Assign(f, vec) == AssignAxes(f, vec, <<"x", "y", "z">>, 1)
\* target.x = target.y = target.z = value: z is assigned first, x last.
AssignChained(f, vec) == AssignAxes(f, vec, <<"z", "y", "x">>, 1)

\* Mutant: the handle is not tested for null; reading a field of null raises
\* inside the try and is caught.
WriteVecNoNullCheck(w, h, key, vec) ==
    IF w.thrown THEN w
    ELSE IF h = NoNode THEN [w EXCEPT !.caught = @ \cup {key}]
    ELSE LET f == w.nodes[h][key]
             r == IF HasSet(f) THEN CallSet(f, vec) ELSE Assign(f, vec)
         IN  IF f.kind = "absent" THEN w
             ELSE IF r.ok THEN [w EXCEPT !.nodes[h][key] = r.f]
             ELSE [w EXCEPT !.nodes[h][key] = r.f, !.caught = @ \cup {key}]

\* Mutant: no try/catch around the write; a rejected value leaves the handler
\* as an exception and the writes after it are not attempted.
WriteVecNoCatch(w, h, key, vec) ==
    IF w.thrown \/ h = NoNode THEN w
    ELSE LET f == w.nodes[h][key]
             r == IF HasSet(f) THEN CallSet(f, vec) ELSE Assign(f, vec)
         IN  IF f.kind = "absent" THEN w
             ELSE IF r.ok THEN [w EXCEPT !.nodes[h][key] = r.f]
             ELSE [w EXCEPT !.nodes[h][key] = r.f, !.thrown = TRUE]

\* App: the body setRotation, setPosition and setScale share. One guarded write
\* of vec to field key of node h: nothing when the handle or the field is
\* absent; otherwise, inside try/catch, set when the field has a set method and
\* the assignment of x, y, z when it has none.
WriteVec(w, h, key, vec) ==
    IF w.thrown \/ h = NoNode THEN w
    ELSE LET f == w.nodes[h][key]
             r == IF HasSet(f) THEN CallSet(f, vec) ELSE Assign(f, vec)
         IN  IF f.kind = "absent" THEN w
             ELSE IF r.ok THEN [w EXCEPT !.nodes[h][key] = r.f]
             ELSE [w EXCEPT !.nodes[h][key] = r.f, !.caught = @ \cup {key}]

\* typeof value === 'number': a number is n / d, a vector is {x, y, z}.
IsNumber(value) == "n" \in DOMAIN value

\* Mutant: setNodeVec3 without the branch for a number; only vectors are written.
setNodeVec3VectorsOnly(w, h, key, value) ==
    IF w.thrown \/ h = NoNode THEN w
    ELSE IF ~IsNumber(value)
    THEN LET target == w.nodes[h][key]
             r == IF HasSet(target) THEN CallSet(target, value) ELSE Assign(target, value)
         IN  IF target.kind = "absent" THEN w
             ELSE IF r.ok THEN [w EXCEPT !.nodes[h][key] = r.f]
             ELSE [w EXCEPT !.nodes[h][key] = r.f, !.caught = @ \cup {key}]
    ELSE w

\* LandingPage: setNodeVec3(node, key, value). Nothing when the node is null;
\* inside try/catch, a number for scale goes to all three axes, through
\* scale.set or else the chained assignment; a vector goes to node[key]
\* through target.set or else Object.assign; a number for another key is
\* ignored.
setNodeVec3(w, h, key, value) ==
    IF w.thrown \/ h = NoNode THEN w
    ELSE IF key = "scale" /\ IsNumber(value)
    THEN LET f == w.nodes[h]["scale"]
             vec == Vec3(value, value, value)
             r == IF HasSet(f) THEN CallSet(f, vec) ELSE AssignChained(f, vec)
         IN  IF f.kind = "absent" THEN w
             ELSE IF r.ok THEN [w EXCEPT !.nodes[h]["scale"] = r.f]
             ELSE [w EXCEPT !.nodes[h]["scale"] = r.f, !.caught = @ \cup {"scale"}]
    ELSE IF ~IsNumber(value)
    THEN LET target == w.nodes[h][key]
             r == IF HasSet(target) THEN CallSet(target, value) ELSE Assign(target, value)
         IN  IF target.kind = "absent" THEN w
             ELSE IF r.ok THEN [w EXCEPT !.nodes[h][key] = r.f]
             ELSE [w EXCEPT !.nodes[h][key] = r.f, !.caught = @ \cup {key}]
    ELSE w
\* App: setRotation, setPosition, setScale.
setRotation(w, h, x, y, z) == WriteVec(w, h, "rotation", Vec3(x, y, z))
setPosition(w, h, x, y, z) == WriteVec(w, h, "position", Vec3(x, y, z))
setScale(w, h, s) == WriteVec(w, h, "scale", Vec3(s, s, s))

applyPose(var, w, h, pose) ==
    IF pose = TypeError THEN [w EXCEPT !.thrown = TRUE]
    ELSE IF var = "LandingPage"
    THEN setNodeVec3(
             setNodeVec3(
                 setNodeVec3(w, h, "rotation", Vec3(pose.x, pose.y, pose.z)),
                 h, "position", Vec3(pose.px, pose.py, pose.pz)),
             h, "scale", pose.s)
    ELSE setScale(
             setPosition(
                 setRotation(w, h, pose.x, pose.y, pose.z),
                 h, pose.px, pose.py, pose.pz),
             h, pose.s)

\* --------------------------------------------------------- scene resolution
OBJECT_NAME(var) == IF var = "LandingPage" THEN "Orb" ELSE "male_tshirt"
tryNames(var) == <<OBJECT_NAME(var), "shirt", "Tshirt", "tshirt", "Model", "Mesh">>
Names == {"Orb", "male_tshirt", "shirt", "Tshirt", "tshirt", "Model", "Mesh"}

\* A loaded scene (SplineAppLike): whether it has findObjectByName, what that
\* returns for each name (NoNode for undefined or null), the top-level children
\* of _scene in order (<<>> when _scene or its children are missing), and the
\* shape of every node.
App(hasFind, byName, children, shapes) ==
    [hasFind |-> hasFind, byName |-> byName, children |-> children, shapes |-> shapes]

\* Mutant: the loop has no break; the last name that has a match wins.
RECURSIVE FindByNamesNoBreak(_, _, _)
FindByNamesNoBreak(app, names, i) ==
    IF i > Len(names) THEN NoNode
    ELSE LET found == IF app.hasFind THEN app.byName[names[i]] ELSE NoNode
             later == FindByNamesNoBreak(app, names, i + 1)
         IN  IF later # NoNode THEN later ELSE found

\* The for loop over tryNames from index i: the first truthy result.
RECURSIVE FindByNames(_, _, _)
FindByNames(app, names, i) ==
    IF i > Len(names) THEN NoNode
    ELSE LET found == IF app.hasFind THEN app.byName[names[i]] ELSE NoNode
         IN  IF found # NoNode THEN found ELSE FindByNames(app, names, i + 1)

\* children.find(child => !!child?.rotation) from index i.
RECURSIVE FindChild(_, _)
FindChild(app, i) ==
    IF i > Len(app.children) THEN NoNode
    ELSE IF app.children[i] # NoNode /\ app.shapes[app.children[i]]["rotation"] # "absent"
         THEN app.children[i]
         ELSE FindChild(app, i + 1)

resolveSceneObject(var, app) ==
    LET found == FindByNames(app, tryNames(var), 1)
    IN  IF found = NoNode /\ Len(app.children) > 0 THEN FindChild(app, 1) ELSE found

\* -------------------------------------------------------------------- state
VARIABLES
    variant,       \* which component runs: "LandingPage" or "App"
    effect,        \* the scroll effect: "unmounted", "static" (returned early on
                   \* reduced motion), "listening", "cleaned" (listening, then
                   \* torn down), "removed" (static, then unmounted)
    listeners,     \* the window events onScroll is attached to
    ticking,       \* the effect's `ticking` flag
    rafQueue,      \* number of update callbacks requestAnimationFrame holds
    stageEl,       \* stageRef.current is an element
    rectTop,       \* the stage's getBoundingClientRect().top
    rectHeight,    \* the stage's getBoundingClientRect().height
    innerHeight,   \* window.innerHeight
    splineAppRef,  \* splineAppRef.current
    shirtRef,      \* shirtRef.current: a node id, or NoNode for null
    isLoaded,      \* the isLoaded state
    nodes,         \* the scene's nodes once loaded: id -> key -> [kind, val]
    caught,        \* keys whose write raised and was caught (console.warn)
    thrown,        \* an exception left a handler
    burst,         \* history: scroll and resize events dispatched since update
                   \* last ran (since the effect ran, if update never did), up
                   \* to MaxBurst
    served,        \* history: the value of burst when update last ran (0 if
                   \* it never did): the events that run of update answered
    fnPc,          \* pure-function harness: "idle", "ready", "done"
    fnArgs,        \* its inputs
    fnResult       \* its result

pageVars == <<variant, effect, listeners, ticking, rafQueue, stageEl, rectTop,
              rectHeight, innerHeight, splineAppRef, shirtRef, isLoaded, nodes,
              caught, thrown, burst, served>>
fnVars == <<fnPc, fnArgs, fnResult>>
vars == <<pageVars, fnVars>>

NoApp == App(FALSE, [n \in Names |-> NoNode], <<>>, <<>>)
NoArgs == [seq |-> <<>>, progress |-> R(0)]

Tops == (0 - MaxScroll)..0
StageHeights == {Viewport, TallStage}
ViewportHeights == {0, Viewport}

FnIdle == fnPc = "idle" /\ fnArgs = NoArgs /\ fnResult = Undefined

InitPage ==
    /\ variant \in Variants
    /\ effect = "unmounted"
    /\ listeners = {}
    /\ ticking = FALSE
    /\ rafQueue = 0
    /\ stageEl = TRUE
    /\ rectTop \in Tops
    /\ rectHeight \in StageHeights
    /\ innerHeight \in ViewportHeights
    /\ splineAppRef = NoApp
    /\ shirtRef = NoNode
    /\ isLoaded = FALSE
    /\ nodes = <<>>
    /\ caught = {}
    /\ thrown = FALSE
    /\ burst = 0
    /\ served = 0

Init == InitPage /\ FnIdle

\* ------------------------------------------------------------------ actions
\* window.matchMedia is missing, or its query matches or does not.
MediaStates == {"noMatchMedia", "reduce", "noPreference"}
\* LandingPage: (window.matchMedia?.(query).matches) ?? false.
prefersReducedMotionLandingPage(media) ==
    IF media = "noMatchMedia" THEN FALSE ELSE media = "reduce"
\* App: !!window.matchMedia && window.matchMedia(query).matches.
prefersReduce(media) ==
    media # "noMatchMedia" /\ media = "reduce"
prefersReducedMotion(var, media) ==
    IF var = "LandingPage" THEN prefersReducedMotionLandingPage(media)
    ELSE prefersReduce(media)

\* Mutant: onScroll does not test ticking; every event schedules an update.
onScrollNoGuard(tk, q) == [ticking |-> TRUE, rafQueue |-> q + 1]

\* Mutant: onScroll sets ticking and requests no animation frame.
onScrollNoRequest(tk, q) == [ticking |-> TRUE, rafQueue |-> q]

\* onScroll: schedule update unless one is already scheduled.
onScroll(tk, q) ==
    IF tk THEN [ticking |-> tk, rafQueue |-> q]
    ELSE [ticking |-> TRUE, rafQueue |-> q + 1]

\* Mutant: the reduced-motion test comes after the listeners are attached and
\* onScroll is called.
scrollEffectLateTest(reduced, q) ==
    [effect    |-> IF reduced THEN "static" ELSE "listening",
     listeners |-> {"scroll", "resize"},
     ticking   |-> onScroll(FALSE, q).ticking,
     rafQueue  |-> onScroll(FALSE, q).rafQueue]

\* The body of the scroll effect (useEffect): return early on reduced motion;
\* otherwise declare ticking = false, attach onScroll to scroll and resize and
\* call it once.
scrollEffect(reduced, q) ==
    IF reduced
    THEN [effect |-> "static", listeners |-> {}, ticking |-> FALSE, rafQueue |-> q]
    ELSE [effect    |-> "listening",
          listeners |-> {"scroll", "resize"},
          ticking   |-> onScroll(FALSE, q).ticking,
          rafQueue  |-> onScroll(FALSE, q).rafQueue]

\* The scroll effect runs, once, after the first render.
MountEffect ==
    /\ effect = "unmounted"
    /\ \E media \in MediaStates :
          LET e == scrollEffect(prefersReducedMotion(variant, media), rafQueue)
          IN  /\ effect' = e.effect
              /\ listeners' = e.listeners
              /\ ticking' = e.ticking
              /\ rafQueue' = e.rafQueue
    /\ burst' = 0
    /\ UNCHANGED <<served, variant, stageEl, rectTop, rectHeight, innerHeight, splineAppRef,
                   shirtRef, isLoaded, nodes, caught, thrown, fnVars>>

\* The window dispatches `event`: onScroll runs if it is attached to it.
Dispatch(event) ==
    /\ burst' = IF burst < MaxBurst THEN burst + 1 ELSE burst
    /\ UNCHANGED served
    /\ IF event \in listeners
       THEN /\ ticking' = onScroll(ticking, rafQueue).ticking
            /\ rafQueue' = onScroll(ticking, rafQueue).rafQueue
       ELSE UNCHANGED <<ticking, rafQueue>>

\* The user scrolls: the stage's top moves and a scroll event is dispatched.
Scroll ==
    /\ effect \in {"unmounted", "static", "listening"}
    /\ \E top \in Tops \ {rectTop} : rectTop' = top
    /\ Dispatch("scroll")
    /\ UNCHANGED <<variant, effect, listeners, stageEl, rectHeight, innerHeight,
                   splineAppRef, shirtRef, isLoaded, nodes, caught, thrown, fnVars>>

\* The window is resized: the layout changes and a resize event is dispatched.
Resize ==
    /\ effect \in {"unmounted", "static", "listening"}
    /\ \E h \in StageHeights, ih \in ViewportHeights :
          /\ <<h, ih>> # <<rectHeight, innerHeight>>
          /\ rectHeight' = h
          /\ innerHeight' = ih
    /\ Dispatch("resize")
    /\ UNCHANGED <<variant, effect, listeners, stageEl, rectTop, splineAppRef,
                   shirtRef, isLoaded, nodes, caught, thrown, fnVars>>

\* update: clear ticking and apply the pose of the current stage progress.
update(var, w) ==
    applyPose(var, w, shirtRef,
              getPoseAt(var, POSES,
                        getStageProgress(var, stageEl, rectTop, rectHeight, innerHeight)))

\* A rendering frame: every callback requestAnimationFrame holds is run.
Frame ==
    /\ rafQueue > 0
    /\ LET w == update(variant, World(nodes, caught, thrown))
       IN  /\ nodes' = w.nodes
           /\ caught' = w.caught
           /\ thrown' = w.thrown
    /\ ticking' = FALSE
    /\ rafQueue' = 0
    /\ served' = burst
    /\ burst' = 0
    /\ UNCHANGED <<variant, effect, listeners, stageEl, rectTop, rectHeight, innerHeight,
                   splineAppRef, shirtRef, isLoaded, fnVars>>

\* Mutant: handleLoad applies no pose; the first pose waits for an update.
initialPoseNone(var, w, h) == w

\* The last statement of handleLoad: applyPose(getPoseAt(0)).
initialPose(var, w, h) == applyPose(var, w, h, getPoseAt(var, POSES, R(0)))

\* handleLoad(app): resolve the scene object, store it, apply the pose of
\* progress 0.
HandleLoad(app) ==
    /\ effect \in {"static", "listening"}
    /\ ~isLoaded
    /\ splineAppRef' = app
    /\ shirtRef' = resolveSceneObject(variant, app)
    /\ isLoaded' = TRUE
    /\ LET loaded == [i \in DOMAIN app.shapes |-> NewNode(app.shapes[i])]
           w == initialPose(variant, World(loaded, caught, thrown), shirtRef')
       IN  /\ nodes' = w.nodes
           /\ caught' = w.caught
           /\ thrown' = w.thrown
    /\ UNCHANGED <<variant, effect, listeners, ticking, rafQueue, stageEl, rectTop,
                   rectHeight, innerHeight, burst, served, fnVars>>

\* The effect's cleanup function: detach onScroll from scroll and resize.
cleanup(ls) == ls \ {"scroll", "resize"}

\* The component unmounts: React clears stageRef and runs the effect's cleanup
\* (an effect that returned early has none).
Teardown ==
    /\ effect \in {"static", "listening"}
    /\ effect' = IF effect = "listening" THEN "cleaned" ELSE "removed"
    /\ stageEl' = FALSE
    /\ listeners' = IF effect = "listening" THEN cleanup(listeners) ELSE listeners
    /\ UNCHANGED <<variant, ticking, rafQueue, rectTop, rectHeight, innerHeight,
                   splineAppRef, shirtRef, isLoaded, nodes, caught, thrown, burst, served, fnVars>>

\* The cleanup function is run once more.
CleanupAgain ==
    /\ effect = "cleaned"
    /\ listeners' = cleanup(listeners)
    /\ UNCHANGED <<variant, effect, ticking, rafQueue, stageEl, rectTop, rectHeight,
                   innerHeight, splineAppRef, shirtRef, isLoaded, nodes, caught, thrown,
                   burst, served, fnVars>>

\* ------------------------------------------------------------ specification
NoneByName == [n \in Names |-> NoNode]
PlainShape == [k \in Keys |-> "plain"]
\* Node 1 has shape sh, every other node is plain.
ShapesWith(sh) == [i \in NodeIds |-> IF i = 1 THEN sh ELSE PlainShape]

\* The scenes the page is loaded with: one whose node 1 answers to the name
\* "shirt" and has any shape, one without findObjectByName whose children are
\* nodes 2 and 1, and one in which nothing is found.
PageApps ==
    {App(TRUE, [NoneByName EXCEPT !["shirt"] = 1], <<>>, ShapesWith(sh)) : sh \in Shapes}
    \cup {App(FALSE, NoneByName, <<2, 1>>, [ShapesWith(PlainShape) EXCEPT ![2]["rotation"] = "absent"]),
          App(TRUE, NoneByName, <<>>, ShapesWith(PlainShape))}

\* The Spline component finishes loading its scene and calls onLoad.
LoadPage ==
    /\ ~isLoaded
    /\ \E app \in PageApps : HandleLoad(app)

Next ==
    \/ MountEffect
    \/ Scroll
    \/ Resize
    \/ Frame
    \/ LoadPage
    \/ Teardown
    \/ CleanupAgain

Spec == Init /\ [][Next]_vars

\* ---- the page with a scene of plain nodes, every requested frame delivered
\* A scene whose node 1 answers to the name "shirt", and one in which nothing
\* is found.
LiveApps ==
    {App(TRUE, [NoneByName EXCEPT !["shirt"] = 1], <<>>, ShapesWith(PlainShape)),
     App(TRUE, NoneByName, <<>>, ShapesWith(PlainShape))}
LoadLive ==
    /\ ~isLoaded
    /\ \E app \in LiveApps : HandleLoad(app)
NextLive ==
    \/ MountEffect
    \/ Scroll
    \/ Resize
    \/ Frame
    \/ LoadLive
    \/ Teardown
    \/ CleanupAgain

\* A fixed scroll geometry for the specifications of single operations.
InitStill ==
    /\ InitPage
    /\ rectTop = 0
    /\ rectHeight = TallStage
    /\ innerHeight = Viewport

\* ---- handleLoad over every small scene
\* findObjectByName answers to at most two names; the children are at most
\* two entries, each a node or null (NoNode); a node has a rotation or has not.
ByNames ==
    {[[NoneByName EXCEPT ![a] = i] EXCEPT ![b] = j] :
        a \in Names, b \in Names, i \in {NoNode} \cup NodeIds, j \in {NoNode} \cup NodeIds}
ChildLists ==
    {<<>>} \cup {<<a>> : a \in {NoNode} \cup NodeIds}
           \cup {<<a, b>> : a \in {NoNode} \cup NodeIds, b \in {NoNode} \cup NodeIds}
RotationShapes ==
    [NodeIds -> {PlainShape, [PlainShape EXCEPT !["rotation"] = "absent"]}]
SceneApps ==
    {App(TRUE, bn, ch, sh) : bn \in ByNames, ch \in ChildLists, sh \in RotationShapes}
    \cup {App(FALSE, NoneByName, ch, sh) : ch \in ChildLists, sh \in RotationShapes}

InitResolve == InitStill /\ FnIdle
LoadScene ==
    /\ ~isLoaded
    /\ \E app \in SceneApps : HandleLoad(app)
NextResolve ==
    \/ MountEffect
    \/ LoadScene
SpecResolve == InitResolve /\ [][NextResolve]_vars

\* ---- getPoseAt over every short keyframe sequence
SamplePoses == {POSES[i] : i \in 1..MaxFrames}
PoseSeqs == UNION {[1..n -> SamplePoses] : n \in 0..MaxFrames}
\* Progress values from -1 to 2 in steps of 1 / ProgDen,
\* and the normalized positions i / (n - 1) of the keyframes.
Progresses ==
    {Rat(k, ProgDen) : k \in (0 - ProgDen)..(2 * ProgDen)}
    \cup {Rat(i, m) : i \in 0..(MaxFrames - 1), m \in 1..(MaxFrames - 1)}

InitPose ==
    /\ InitStill
    /\ fnPc = "ready"
    /\ fnArgs \in [seq : PoseSeqs, progress : Progresses]
    /\ fnResult = Undefined
EvalPoseAt ==
    /\ fnPc = "ready"
    /\ fnPc' = "done"
    /\ fnResult' = getPoseAt(variant, fnArgs.seq, fnArgs.progress)
    /\ UNCHANGED <<fnArgs, pageVars>>
NextPose == EvalPoseAt
SpecPose == InitPose /\ [][NextPose]_vars

\* ---- getStageProgress over every small geometry
\* The stage's top runs from above the viewport to below its top edge, its
\* height from 0 to more than the viewport's, and window.innerHeight from 0.
GeomTops == (0 - MaxScroll - 1)..MaxScroll
GeomHeights == 0..(TallStage + 1)
GeomViewports == 0..(Viewport + 1)
Geometries ==
    [el : BOOLEAN, top : GeomTops, height : GeomHeights, ih : GeomViewports]

InitProgress ==
    /\ InitStill
    /\ fnPc = "ready"
    /\ fnArgs \in Geometries
    /\ fnResult = Undefined
EvalStageProgress ==
    /\ fnPc = "ready"
    /\ fnPc' = "done"
    /\ fnResult' = getStageProgress(variant, fnArgs.el, fnArgs.top,
                                    fnArgs.height, fnArgs.ih)
    /\ UNCHANGED <<fnArgs, pageVars>>
NextProgress == EvalStageProgress
SpecProgress == InitProgress /\ [][NextProgress]_vars

\* ------------------------------------------------- helpers of the properties
Writable(f) == f.kind \in {"plain", "set"}
\* The vector applyPose writes to field key for `pose`.
PoseVec(pose, key) ==
    IF key = "rotation" THEN Vec3(pose.x, pose.y, pose.z)
    ELSE IF key = "position" THEN Vec3(pose.px, pose.py, pose.pz)
    ELSE Vec3(pose.s, pose.s, pose.s)
\* The pose of progress 0 and the pose of the current scroll geometry.
LoadPose == getPoseAt(variant, POSES, R(0))
CurrentPose ==
    getPoseAt(variant, POSES,
              getStageProgress(variant, stageEl, rectTop, rectHeight, innerHeight))
\* Every field of the resolved object that accepts writes holds `pose`.
ShowsIn(ns, h, pose) ==
    \A key \in Keys : Writable(ns[h][key]) => ns[h][key].val = PoseVec(pose, key)
\* The step is a run of handleLoad / a rendering frame / the scroll effect.
IsLoadStep == ~isLoaded /\ isLoaded'
IsFrameStep == rafQueue > 0 /\ rafQueue' = 0
IsMountStep == effect = "unmounted" /\ effect' # "unmounted"
\* The browser delivers every animation frame it was asked for: while
\* requestAnimationFrame holds a callback, a frame eventually runs it. The
\* steps that empty the queue are the steps of Frame, and Frame is enabled
\* exactly when the queue is not empty.
FairSpec == Init /\ [][NextLive]_vars /\ WF_rafQueue(IsFrameStep)
\* The field's write raises.
Rejects(f) == f.kind \in {"throws", "locked"}

\* ---------------------------------------------------------------------- C1
\* C1: while the scroll and resize listeners are attached, at most one update
\* is held by requestAnimationFrame, and one is held exactly when ticking is
\* set; a frame runs each held callback once, so however many events arrive
\* between two frames, update runs once.
C1_AtMostOnePending ==
    effect = "listening" => (rafQueue <= 1 /\ (ticking <=> rafQueue = 1))

\* Two or more events arrived since update last ran, and one update is pending.
C1_Witness == effect = "listening" /\ burst >= 2 /\ rafQueue = 1 /\ ticking

\* ---------------------------------------------------------------------- C2
\* C2: after the cleanup function has run, no listener is attached and no
\* update scheduled before the teardown is still pending.
C2_NoDanglingWork == effect = "cleaned" => (listeners = {} /\ rafQueue = 0)

\* ---------------------------------------------------------------------- C3
\* C3: when reduced motion is signalled as the effect initializes, no listener
\* is ever attached, no update is ever scheduled, and the only value ever
\* written to a scene node is the load-time pose of progress 0 (to the axes
\* that accepted it, on a vector that rejects an axis).
C3_ReducedMotionStatic ==
    effect \in {"static", "removed"} =>
        /\ listeners = {}
        /\ rafQueue = 0
        /\ ~ticking
        /\ \A i \in DOMAIN nodes : \A key \in Keys :
              IF nodes[i][key].kind = "locked"
              THEN \A axis \in {"x", "y", "z"} :
                       nodes[i][key].val[axis]
                           \in {AssetVec[axis], PoseVec(LoadPose, key)[axis]}
              ELSE nodes[i][key].val \in {AssetVec, PoseVec(LoadPose, key)}

\* Reduced motion, the object is resolved, events were dispatched and the page
\* is scrolled away from progress 0.
C3_Witness ==
    /\ effect = "static"
    /\ isLoaded
    /\ shirtRef # NoNode
    /\ burst >= 2
    /\ CurrentPose # LoadPose
    /\ nodes[shirtRef]["rotation"].val = PoseVec(LoadPose, "rotation")

C5_PoseTracksScroll ==
    (effect = "listening" /\ shirtRef # NoNode /\ rafQueue = 0) =>
        ShowsIn(nodes, shirtRef, CurrentPose)

\* ---------------------------------------------------------------------- C6
\* C6: while the handle is absent, no step other than the load itself (so no
\* run of update, before the load or after a load that resolved nothing)
\* changes any scene node, the handle, the caught errors or raises.
C6_AbsentHandleNoOp ==
    [][(shirtRef = NoNode /\ isLoaded' = isLoaded) =>
          (nodes' = nodes /\ shirtRef' = NoNode /\ caught' = caught /\ thrown' = thrown
             /\ ~thrown /\ caught = {})]_vars

\* A scene was loaded, nothing was resolved, and update has run since.
C6_Witness ==
    /\ effect = "listening"
    /\ isLoaded
    /\ shirtRef = NoNode
    /\ nodes # <<>>
    /\ ~ticking
    /\ burst = 0

\* ---------------------------------------------------------------------- C7
\* C7: whichever of the three fields are missing or reject the write, every
\* run of applyPose (in handleLoad and in update) leaves each other field at
\* the pose's value, catches each rejection and lets no exception out.
C7_SubWritesIndependent ==
    [][((IsLoadStep \/ IsFrameStep) /\ shirtRef' # NoNode) =>
          /\ ShowsIn(nodes', shirtRef', IF IsLoadStep THEN LoadPose ELSE CurrentPose)
          /\ ~thrown'
          /\ caught' = caught \cup {key \in Keys : Rejects(nodes'[shirtRef'][key])}]_vars

\* An update ran on an object whose rotation rejects writes and whose position
\* is missing: the scale holds the pose of the current progress.
C7_Witness ==
    /\ shirtRef # NoNode
    /\ effect = "listening"
    /\ nodes[shirtRef]["rotation"].kind = "throws"
    /\ nodes[shirtRef]["position"].kind = "absent"
    /\ nodes[shirtRef]["scale"].kind = "set"
    /\ "rotation" \in caught
    /\ CurrentPose # LoadPose
    /\ nodes[shirtRef]["scale"].val = PoseVec(CurrentPose, "scale")

\* ---------------------------------------------------------------------- C8
\* The object an ordered-candidate search yields, stated without the loops:
\* the answer for the least index of tryNames that has one; failing that, the
\* child of least index that has a rotation; failing that, nothing.
ExpectedObject(var, app) ==
    LET names   == tryNames(var)
        matches == {i \in 1..Len(names) : app.hasFind /\ app.byName[names[i]] # NoNode}
        rotated == {i \in 1..Len(app.children) :
                       /\ app.children[i] # NoNode
                       /\ app.shapes[app.children[i]]["rotation"] # "absent"}
        least(S) == CHOOSE i \in S : \A j \in S : i <= j
    IN  IF matches # {} THEN app.byName[names[least(matches)]]
        ELSE IF rotated # {} THEN app.children[least(rotated)]
        ELSE NoNode

\* C8: after handleLoad the stored handle is the object of the earliest
\* candidate name that has a match, else the first top-level child with a
\* rotation field, else absent; the handler does not throw.
C8_OrderedCandidateSearch ==
    isLoaded => (shirtRef = ExpectedObject(variant, splineAppRef) /\ ~thrown)

\* Two candidate names match different nodes and the earlier one won, in a
\* scene whose first child is another node.
C8_Witness ==
    /\ isLoaded
    /\ splineAppRef.hasFind
    /\ splineAppRef.byName["Tshirt"] = 2
    /\ splineAppRef.byName["Mesh"] = 1
    /\ splineAppRef.children = <<1>>
    /\ shirtRef = 2

\* ---------------------------------------------------------------------- C9
Numbers == {"x", "y", "z", "px", "py", "pz", "s"}
SameNumbers(p, q) == \A f \in Numbers : p[f] = q[f]
Done == fnPc = "done"

\* C9 as stated: for a non-empty sequence the result at progress 0 is the
\* first keyframe and the result at progress 1 is the last.
C9_EndpointsAreTheKeyframes ==
    (Done /\ fnArgs.seq # <<>>) =>
        /\ fnArgs.progress = R(0) => fnResult = fnArgs.seq[1]
        /\ fnArgs.progress = R(1) => fnResult = fnArgs.seq[Len(fnArgs.seq)]

\* C9 as amended: for a non-empty sequence the result at progress 0 equals the
\* first keyframe, and at progress 1 the last, in every numeric field (the
\* label of the result of two or more keyframes is the mix label); no index
\* outside the sequence is read.
C9_EndpointNumbers ==
    (Done /\ fnArgs.seq # <<>>) =>
        /\ fnResult # TypeError
        /\ fnArgs.progress = R(0) => SameNumbers(fnResult, fnArgs.seq[1])
        /\ fnArgs.progress = R(1) => SameNumbers(fnResult, fnArgs.seq[Len(fnArgs.seq)])

\* Progress 1 on a sequence of two or more keyframes that ends on another
\* keyframe than it starts with.
C9_Witness ==
    /\ Done
    /\ Len(fnArgs.seq) >= 2
    /\ fnArgs.progress = R(1)
    /\ fnArgs.seq[1] # fnArgs.seq[Len(fnArgs.seq)]
    /\ SameNumbers(fnResult, fnArgs.seq[Len(fnArgs.seq)])

\* --------------------------------------------------------------------- C10
\* C10: for the empty sequence the result is the neutral pose (rotation and
\* position 0, scale 1) and for a one-element sequence it is that element
\* unchanged, for every progress value.
C10_ShortSequencesIgnoreProgress ==
    Done =>
        /\ Len(fnArgs.seq) = 0 =>
              /\ \A f \in Numbers \ {"s"} : fnResult[f] = R(0)
              /\ fnResult.s = R(1)
        /\ Len(fnArgs.seq) = 1 => fnResult = fnArgs.seq[1]

\* A one-element sequence evaluated strictly inside (0, 1).
C10_Witness ==
    /\ Done
    /\ Len(fnArgs.seq) = 1
    /\ RLt(R(0), fnArgs.progress)
    /\ RLt(fnArgs.progress, R(1))
    /\ fnResult = fnArgs.seq[1]

\* --------------------------------------------------------------------- C11
\* C11: for every sequence, a progress below 0 gives the result of progress 0
\* and a progress above 1 gives the result of progress 1.
C11_ProgressIsClamped ==
    Done =>
        /\ RLt(fnArgs.progress, R(0)) =>
              fnResult = getPoseAt(variant, fnArgs.seq, R(0))
        /\ RLt(R(1), fnArgs.progress) =>
              fnResult = getPoseAt(variant, fnArgs.seq, R(1))

\* A negative progress on a sequence that starts with two different keyframes:
\* the result has the numbers of the first.
C11_Witness ==
    /\ Done
    /\ Len(fnArgs.seq) >= 2
    /\ fnArgs.seq[1] # fnArgs.seq[2]
    /\ RLt(fnArgs.progress, R(0))
    /\ SameNumbers(fnResult, fnArgs.seq[1])

\* --------------------------------------------------------------------- C12
\* v lies between lo and hi, whichever is the larger.
Between(lo, v, hi) ==
    \/ ~RLt(v, lo) /\ ~RLt(hi, v)
    \/ ~RLt(v, hi) /\ ~RLt(lo, v)

\* C12: for n >= 2 keyframes, at progress i / (n - 1) every numeric field of the
\* result is that of keyframe i, and at every progress inside segment
\* [i / (n - 1), (i + 1) / (n - 1)] every numeric field lies between its values
\* in keyframes i and i + 1.
C12_ContinuousPolyline ==
    (Done /\ Len(fnArgs.seq) >= 2) =>
        LET n == Len(fnArgs.seq)
            p == fnArgs.progress
        IN  /\ \A i \in 0..(n - 1) :
                  p = Rat(i, n - 1) => SameNumbers(fnResult, fnArgs.seq[i + 1])
            /\ \A i \in 0..(n - 2) :
                  (~RLt(p, Rat(i, n - 1)) /\ ~RLt(Rat(i + 1, n - 1), p)) =>
                      \A f \in Numbers :
                          Between(fnArgs.seq[i + 1][f], fnResult[f], fnArgs.seq[i + 2][f])

\* An interior keyframe boundary of a sequence of three different keyframes.
C12_Witness ==
    /\ Done
    /\ Len(fnArgs.seq) = 3
    /\ fnArgs.progress = Rat(1, 2)
    /\ fnArgs.seq[1] # fnArgs.seq[2]
    /\ fnArgs.seq[2] # fnArgs.seq[3]
    /\ SameNumbers(fnResult, fnArgs.seq[2])

\* --------------------------------------------------------------------- C13
\* C13: for every stage top, stage height and viewport height the divisor is at
\* least 1 and the progress is a number from 0 to 1; the divisor is 1 when the
\* stage is no taller than the viewport (a stage of height 0 included), and the
\* progress is 0 when the stage element is not mounted.
C13_ProgressWellDefined ==
    Done =>
        /\ scrollable(fnArgs.height, fnArgs.ih) >= 1
        /\ fnResult.d > 0
        /\ ~RLt(fnResult, R(0))
        /\ ~RLt(R(1), fnResult)
        /\ fnArgs.height <= fnArgs.ih => scrollable(fnArgs.height, fnArgs.ih) = 1
        /\ ~fnArgs.el => fnResult = R(0)

\* A mounted stage exactly as tall as the viewport, scrolled past its top: the
\* difference of the heights is 0, the divisor is 1 and the progress is 1.
C13_Witness ==
    /\ Done
    /\ fnArgs.el
    /\ fnArgs.ih > 0
    /\ fnArgs.height = fnArgs.ih
    /\ fnArgs.top < 0
    /\ fnResult = R(1)

\* --------------------------------------------------------------------- C14
\* The stage is mounted and taller than the viewport of height vh by 1 or more.
TallerThan(vh) == fnArgs.el /\ fnArgs.height - vh >= 1
\* Progress is 1 exactly when the stage's bottom edge is at or above the bottom
\* of a viewport of height vh, and 0 exactly when its top edge is at or below
\* the viewport's top.
EdgesMeet(vh) ==
    /\ fnResult = R(1) <=> fnArgs.top + fnArgs.height <= vh
    /\ fnResult = R(0) <=> fnArgs.top >= 0

\* C14 as stated, the viewport height being window.innerHeight: for a mounted
\* stage taller than the viewport, progress is 1 iff top + height <= viewport
\* height, and 0 iff top >= 0.
C14_BottomMeetsViewport ==
    (Done /\ TallerThan(fnArgs.ih)) => EdgesMeet(fnArgs.ih)

\* C14 amended: the same, the viewport height being window.innerHeight, or 1
\* when window.innerHeight is 0.
C14_BottomMeetsEffectiveViewport ==
    LET vh == IF fnArgs.ih = 0 THEN 1 ELSE fnArgs.ih
    IN  (Done /\ TallerThan(vh)) => EdgesMeet(vh)

\* The stage's bottom edge is exactly at the viewport's bottom and its top is
\* above the viewport: progress has just reached 1.
C14_Witness ==
    /\ Done
    /\ fnArgs.el
    /\ fnArgs.ih > 0
    /\ fnArgs.height - fnArgs.ih >= 1
    /\ fnArgs.top < 0
    /\ fnArgs.top + fnArgs.height = fnArgs.ih
    /\ fnResult = R(1)

\* --------------------------------------------------------------------- C15
Other(var) == IF var = "LandingPage" THEN "App" ELSE "LandingPage"
\* What the step of the running variant leaves, and what the same handler of
\* the other variant leaves from the same state, with the same pose table and
\* the same resolved object: the scene after handleLoad or update, and the
\* effect, listeners and pending flag after the scroll effect.
SceneAfter == World(nodes', caught', thrown')
OtherLoad ==
    initialPose(Other(variant),
                World([i \in DOMAIN splineAppRef'.shapes |-> NewNode(splineAppRef'.shapes[i])],
                      caught, thrown),
                shirtRef')
OtherUpdate == update(Other(variant), World(nodes, caught, thrown))
EffectAfter ==
    [effect |-> effect', listeners |-> listeners', ticking |-> ticking',
     rafQueue |-> rafQueue']
VariantsAgreeOnStep ==
    /\ IsLoadStep => SceneAfter = OtherLoad
    /\ IsFrameStep => SceneAfter = OtherUpdate
    /\ IsMountStep =>
          \A media \in MediaStates :
              EffectAfter = scrollEffect(prefersReducedMotion(variant, media), rafQueue)
                  => EffectAfter = scrollEffect(prefersReducedMotion(Other(variant), media),
                                                rafQueue)

\* C15 as stated: after every step, the other variant's handler run from the
\* same state leaves the same rotation, position and scale, the same handle
\* and the same pending flag, whatever fields the node lacks or rejects.
C15_VariantsAgree == [][VariantsAgreeOnStep]_vars

\* C15 amended: the same, unless the resolved object's scale is a plain vector
\* that rejects one axis after accepting another (the variants assign the axes
\* of the scale in opposite orders).
C15_VariantsAgreeOnWholeWrites ==
    [][(shirtRef' = NoNode \/ nodes'[shirtRef']["scale"].kind # "locked")
          => VariantsAgreeOnStep]_vars

\* An update ran on an object whose rotation rejects writes, whose position is
\* missing and whose scale has no set method: the scale holds the pose of the
\* current progress and nothing is pending.
C15_Witness ==
    /\ shirtRef # NoNode
    /\ effect = "listening"
    /\ nodes[shirtRef]["rotation"].kind = "throws"
    /\ nodes[shirtRef]["position"].kind = "absent"
    /\ nodes[shirtRef]["scale"].kind = "plain"
    /\ "rotation" \in caught
    /\ ~ticking
    /\ rafQueue = 0
    /\ CurrentPose # LoadPose
    /\ nodes[shirtRef]["scale"].val = PoseVec(CurrentPose, "scale")

\* --------------------------------------------------------------------- C16
\* C16: while the listeners are attached, every scroll or resize event is
\* eventually followed by a run of update that starts after it: no event is
\* left waiting, the pending flag is clear, no callback is queued and the
\* object shows the pose of the geometry of that moment.
C16_NoUpdateLost ==
    (effect = "listening" /\ burst >= 1)
        ~> /\ burst = 0
           /\ ~ticking
           /\ rafQueue = 0
           /\ shirtRef # NoNode => ShowsIn(nodes, shirtRef, CurrentPose)

\* An update answered two coalesced events at once on a resolved object: no
\* event is waiting, nothing is pending and the object shows the pose of the
\* current geometry, which is not the pose of the load.
C16_Witness ==
    /\ effect = "listening"
    /\ served >= 2
    /\ burst = 0
    /\ ~ticking
    /\ rafQueue = 0
    /\ shirtRef # NoNode
    /\ CurrentPose # LoadPose
    /\ ShowsIn(nodes, shirtRef, CurrentPose)

=============================================================================
